---- MODULE Spec2Model ----
(***************************************************************************)
(* The PHATE estimator of src/Python/phate/phate.py as a state machine:    *)
(* one instance, its parameter attributes, its cached graph, diffusion     *)
(* potential and embedding, and the public operations set_params, fit and  *)
(* transform acting on it (Spec), together with the deprecated reset_mds   *)
(* and reset_potential (SpecReset).                                        *)
(*                                                                         *)
(* Python values are encoded as follows.  Integer-valued attributes are    *)
(* TLA+ integers; the three non-integer values such an attribute can hold  *)
(* are the negative codes null (Python None), auto (the string 'auto' of   *)
(* t) and unset (the attribute has never been assigned, so reading it      *)
(* raises AttributeError).  String-valued attributes are TLA+ strings.     *)
(* Object-valued attributes (graph, diff_potential, embedding) are records *)
(* and None when absent.  A dataset is a number 1..NData that names the    *)
(* matrix Data(x); NoX is self.X = None.                                   *)
(*                                                                         *)
(* Python 3 semantics are modelled (int <= None raises TypeError).         *)
(***************************************************************************)
EXTENDS Integers, FiniteSets, Sequences, TLC

VARIABLES
    params,          \* the 13 parameter attributes of the instance, by name
    graph,           \* self.graph
    diff_potential,  \* self.diff_potential
    embedding,       \* self.embedding
    X,               \* self.X
    last,            \* the call made last: its arguments and its outcome
    handles,         \* number of graph handles built so far
    sets,            \* number of set_params and reset_* calls made so far
    ops              \* number of calls made on the instance since __init__

vars == <<params, graph, diff_potential, embedding, X, last, handles, sets, ops>>

-----------------------------------------------------------------------------
(* Bounds of the exploration *)

NData == 3      \* datasets
MaxOps == 5     \* calls on the instance
MaxSets == 2    \* set_params and reset_* calls among them

-----------------------------------------------------------------------------
(* Value encoding *)

null == -1
auto == -2
unset == -3
knee == -4
NoX == 0
None == [none |-> TRUE]

ParamNames ==
    {"n_components", "k", "a", "n_landmark", "t", "potential_method",
     "n_pca", "knn_dist", "mds_dist", "mds",
     "n_jobs", "random_state", "verbose"}

(* The values the calls of the exploration pass for each parameter: for    *)
(* every parameter at least two accepted values, every special value its   *)
(* domain has (None, 'auto', 'precomputed'), and for t and                 *)
(* potential_method a value outside the domain.                            *)
Values(n) ==
    CASE n = "n_components"     -> {1, 2}
      [] n = "k"                -> {1, 2}
      [] n = "a"                -> {null, 1}
      [] n = "n_landmark"       -> {null, 1, 2}
      [] n = "t"                -> {auto, 1, 0}
      [] n = "potential_method" -> {"log", "sqrt", "exp"}
      [] n = "n_pca"            -> {null, 1, 2}
      [] n = "knn_dist"         -> {"euclidean", "cosine", "precomputed"}
      [] n = "mds_dist"         -> {"euclidean", "cosine"}
      [] n = "mds"              -> {"metric", "classic"}
      [] n = "n_jobs"           -> {1, 2}
      [] n = "random_state"     -> {null, 1}
      [] n = "verbose"          -> {0, 1}

Datasets == 1..NData

(* The matrices, as sequences of rows.  Datasets 1 and 2 have one shape    *)
(* and differ in content; dataset 3 is dataset 1 with one more observation,*)
(* so its shape cannot be broadcast against theirs; dataset 4 is a single  *)
(* row, which broadcasts against every other one.  No matrix is one row    *)
(* repeated, so a broadcast comparison never finds two different matrices  *)
(* equal.  With n_pca and n_landmark in 1..2 both outcomes of the clamps   *)
(* of lines 494-502 occur.                                                 *)
Data(x) ==
    CASE x = 1 -> << <<1, 0>>, <<0, 1>> >>
      [] x = 2 -> << <<0, 1>>, <<1, 0>> >>
      [] x = 3 -> << <<1, 0>>, <<0, 1>>, <<1, 1>> >>
      [] x = 4 -> << <<0, 0>> >>
      [] OTHER -> << <<x, x>>, <<x, x>> >>

Rows(x) == Len(Data(x))        \* X.shape[0]
Cols(x) == Len(Data(x)[1])     \* X.shape[1]
X00(x) == Data(x)[1][1]        \* X[0, 0]

(* np.all(X == Y) of lines 477 and 566 on the matrices x and y.  The       *)
(* comparison is elementwise after broadcasting: two shapes broadcast when *)
(* in each dimension the lengths are equal or one of them is 1.  When they *)
(* do not, the outcome depends on the numpy the program runs with: the     *)
(* comparison raises ValueError (numpy 1.25 and later) or gives the scalar *)
(* False with a DeprecationWarning (before).                               *)
Compatible(m, n) == m = n \/ m = 1 \/ n = 1

Broadcasts(x, y) == Compatible(Rows(x), Rows(y)) /\ Compatible(Cols(x), Cols(y))

Larger(m, n) == IF m >= n THEN m ELSE n

At(x, i, j) == Data(x)[IF Rows(x) = 1 THEN 1 ELSE i][IF Cols(x) = 1 THEN 1 ELSE j]

AllEqual(x, y) ==
    \A i \in 1..Larger(Rows(x), Rows(y)) : \A j \in 1..Larger(Cols(x), Cols(y)) :
        At(x, i, j) = At(y, i, j)

(* the outcomes of np.all(X == Y): "True", "False" or "ValueError" *)
np_all_equal(x, y) ==
    IF Broadcasts(x, y)
    THEN {IF AllEqual(x, y) THEN "True" ELSE "False"}
    ELSE {"False", "ValueError"}

-----------------------------------------------------------------------------
(* _check_params, lines 204-243.  The result is the exception the checks   *)
(* raise on the attribute values p, "none" when they all pass.  The checks *)
(* run in the order of the source: the first one that fails decides.       *)

KnnDistAllowed ==
    {"euclidean", "cosine", "correlation", "cityblock", "l1", "l2",
     "manhattan", "braycurtis", "canberra", "chebyshev", "dice", "hamming",
     "jaccard", "kulsinski", "mahalanobis", "matching", "minkowski",
     "rogerstanimoto", "russellrao", "seuclidean", "sokalmichener",
     "sokalsneath", "sqeuclidean", "yule"}

MdsDistAllowed ==
    {"euclidean", "cosine", "correlation", "braycurtis", "canberra",
     "chebyshev", "cityblock", "dice", "hamming", "jaccard", "kulsinski",
     "mahalanobis", "matching", "minkowski", "rogerstanimoto", "russellrao",
     "seuclidean", "sokalmichener", "sokalsneath", "sqeuclidean", "yule"}

_check_params(p) ==
    IF p.n_components <= 0 \/ p.k <= 0 THEN "ValueError"
    ELSE IF p.n_jobs = unset THEN "AttributeError"
    ELSE IF p.a # null /\ p.a <= 0 THEN "ValueError"
    ELSE IF p.n_landmark # null /\ p.n_landmark <= 0 THEN "ValueError"
    ELSE IF p.n_pca # null /\ p.n_pca <= 0 THEN "ValueError"
    ELSE IF p.t # auto /\ p.t <= 0 THEN "ValueError"
    ELSE IF p.knn_dist \notin KnnDistAllowed THEN "ValueError"
    ELSE IF p.mds_dist \notin MdsDistAllowed THEN "ValueError"
    ELSE IF p.mds \notin {"classic", "metric", "nonmetric"} THEN "ValueError"
    ELSE IF p.potential_method \notin {"log", "sqrt"} THEN "ValueError"
    ELSE "none"

-----------------------------------------------------------------------------
(* The record of a call *)

NoKw == <<>>

(* op: the method; kw, X: its arguments; changed: the arguments whose value *)
(* differed from the attribute they replace ("X" for the data of fit);      *)
(* err: the exception raised, "none" when the call returned; ret: the       *)
(* value returned; calls: the collaborators and stages the call invoked.    *)
Call(op, kw, x, changed, err, ret, calls) ==
    [op |-> op, kw |-> kw, X |-> x, changed |-> changed, err |-> err,
     ret |-> ret, calls |-> calls]

-----------------------------------------------------------------------------
(* __init__, lines 144-185.  The eleven parameters of lines 149-159 and    *)
(* the four caches are assigned, then _check_params runs.  n_jobs and      *)
(* verbose are assigned only after it (lines 178, 184), so while it runs   *)
(* they are unset.  An exception leaves the instance as it is at the raise.*)

ConstructorArgs ==
    { [n_components |-> 2, k |-> 1, a |-> 1, n_landmark |-> 2, t |-> auto,
       potential_method |-> "log", n_pca |-> 2, knn_dist |-> "euclidean",
       mds_dist |-> "euclidean", mds |-> "metric", n_jobs |-> 1,
       random_state |-> null, verbose |-> 1],
      [n_components |-> 2, k |-> 1, a |-> 1, n_landmark |-> null, t |-> 1,
       potential_method |-> "log", n_pca |-> 1, knn_dist |-> "euclidean",
       mds_dist |-> "euclidean", mds |-> "classic", n_jobs |-> 1,
       random_state |-> 1, verbose |-> 0] }

__init__(args) ==
    LET p0 == [n \in ParamNames |->
                  IF n \in {"n_jobs", "verbose"} THEN unset ELSE args[n]]
        err == _check_params(p0)
    IN  /\ params = IF err = "none"
                    THEN [p0 EXCEPT !["n_jobs"] = args.n_jobs,
                                    !["verbose"] = args.verbose]
                    ELSE p0
        /\ graph = None
        /\ diff_potential = None
        /\ embedding = None
        /\ X = NoX
        /\ last = Call("__init__", args, NoX, {}, err, None, {})
        /\ handles = 0
        /\ sets = 0
        /\ ops = 0

Init == \E args \in ConstructorArgs : __init__(args)

-----------------------------------------------------------------------------
(* The graph collaborator (graphtools), as the estimator uses it.  A handle *)
(* records the arguments it was built with; id tells one handle object      *)
(* from the next one built.                                                 *)

Graph(id, data, n_pca, n_landmark, distance, knn, decay, p) ==
    [id |-> id, data |-> data, n_pca |-> n_pca, n_landmark |-> n_landmark,
     distance |-> distance, knn |-> knn, decay |-> decay, n_jobs |-> p.n_jobs,
     verbose |-> p.verbose, random_state |-> p.random_state]

(* isinstance(graph, graphtools.graphs.LandmarkGraph) *)
IsLandmarkGraph(g) == g.n_landmark # null

(* line 572 with no handle taken for a precomputed one *)
NeverTraditional(g) == FALSE

(* isinstance(graph, graphtools.TraditionalGraph): built from a precomputed *)
(* distance or affinity matrix                                              *)
IsTraditionalGraph(g) == g.distance \in {"distance", "affinity"}

(* graph.set_params signals incompatibility (ValueError) when asked for a  *)
(* value of knn, decay, distance or n_pca other than the handle's own.     *)
GraphRejects(g, kw) ==
    \E n \in (DOMAIN kw) \cap {"knn", "decay", "distance", "n_pca"} :
        kw[n] # g[n]

(* graph.set_params succeeding in place: n_jobs, verbose and random_state  *)
(* are taken over, n_landmark by a landmark graph only.                    *)
GraphUpdated(g, kw) ==
    [f \in DOMAIN g |->
        IF /\ f \in DOMAIN kw
           /\ \/ f \in {"n_jobs", "verbose", "random_state"}
              \/ f = "n_landmark" /\ IsLandmarkGraph(g)
        THEN kw[f] ELSE g[f]]

(* The diffusion operator a handle exposes (diff_op, lines 187-202): a     *)
(* value determined by the data and the kernel arguments of the handle.    *)
diff_op(g) ==
    [data |-> g.data, n_pca |-> g.n_pca, n_landmark |-> g.n_landmark,
     distance |-> g.distance, knn |-> g.knn, decay |-> g.decay]

-----------------------------------------------------------------------------
(* _set_graph_params, lines 245-250: graph.set_params on the handle g,     *)
(* nothing when g is None (the AttributeError is swallowed).               *)

(* _set_graph_params dropping the handle it is to update *)
_set_graph_params_drops(g, kw) == None

_set_graph_params(g, kw) == IF g = None THEN g ELSE GraphUpdated(g, kw)

-----------------------------------------------------------------------------
(* set_params, lines 325-397.  kw is the keyword dictionary of the call.   *)

Supplied(kw, n) == n \in DOMAIN kw

(* Changes with the comparison to the current value left out *)
ChangesIfSupplied(kw, n) == Supplied(kw, n)

Changes(kw, n) == Supplied(kw, n) /\ kw[n] # params[n]

EmbeddingTier == {"n_components", "mds", "mds_dist"}
PotentialTier == {"t", "potential_method"}
KernelTier == {"k", "a", "n_pca", "knn_dist", "n_landmark"}
CrossCutting == {"n_jobs", "random_state", "verbose"}

(* lines 350-365: the parameters whose change sets reset_kernel *)
ResetKernelParams == {"k", "a", "n_pca", "knn_dist"}

(* lines 359-363: knn_dist changes to or from 'precomputed'.  The source   *)
(* tests `is 'precomputed'`, the identity of two string objects: same      *)
(* tells whether the string that equals 'precomputed' is the very object   *)
(* of the literal (an interned string) or an equal string built at run     *)
(* time.                                                                   *)
KnnDistDiscards(kw, same) ==
    /\ Changes(kw, "knn_dist")
    /\ params.knn_dist = "precomputed" \/ kw.knn_dist = "precomputed"
    /\ same

(* lines 366-369: n_landmark changes to or from None *)
LandmarkDiscards(kw) ==
    /\ Changes(kw, "n_landmark")
    /\ params.n_landmark = null \/ kw.n_landmark = null

(* the handle after lines 359-372 *)
GraphAfterKernel(kw, same) ==
    LET g1 == IF KnnDistDiscards(kw, same) THEN None ELSE graph
    IN  IF ~Changes(kw, "n_landmark") THEN g1
        ELSE IF LandmarkDiscards(kw) THEN None
        ELSE _set_graph_params(g1, [n_landmark |-> kw.n_landmark])

(* the handle after lines 349-384, before the reset flags are applied *)
GraphAfterWrites(kw, same) ==
    LET g2 == GraphAfterKernel(kw, same)
        g3 == IF Supplied(kw, "n_jobs")
              THEN _set_graph_params(g2, [n_jobs |-> kw.n_jobs]) ELSE g2
        g4 == IF Supplied(kw, "random_state")
              THEN _set_graph_params(g3, [random_state |-> kw.random_state])
              ELSE g3
    IN  IF Supplied(kw, "verbose")
        THEN _set_graph_params(g4, [verbose |-> kw.verbose]) ELSE g4

(* lines 386-394: the reset flags as they stand when they are applied *)
reset_kernel(kw) == \E n \in ResetKernelParams : Changes(kw, n)

(* reset_potential with the writes of lines 341-347 forgotten *)
reset_potential_kernel_only(kw) == reset_kernel(kw)

(* reset_potential set by the embedding parameters as well *)
reset_potential_too_wide(kw) ==
    reset_kernel(kw) \/ \E n \in PotentialTier \cup EmbeddingTier : Changes(kw, n)

reset_potential(kw) ==
    reset_kernel(kw) \/ \E n \in PotentialTier : Changes(kw, n)

reset_embedding(kw) ==
    reset_potential(kw) \/ \E n \in EmbeddingTier : Changes(kw, n)

(* whether lines 371-384 reach graph.set_params on a handle *)
UpdatesHandle(kw, same) ==
    \/ /\ Changes(kw, "n_landmark") /\ ~LandmarkDiscards(kw)
       /\ graph # None /\ ~KnnDistDiscards(kw, same)
    \/ /\ \E n \in CrossCutting : Supplied(kw, n)
       /\ GraphAfterKernel(kw, same) # None

set_params(kw, same) ==
    LET p1 == [n \in ParamNames |-> IF Supplied(kw, n) THEN kw[n] ELSE params[n]]
    IN  /\ params' = p1
        /\ graph' = IF reset_kernel(kw) THEN None ELSE GraphAfterWrites(kw, same)
        /\ diff_potential' = IF reset_potential(kw) THEN None ELSE diff_potential
        /\ embedding' = IF reset_embedding(kw) THEN None ELSE embedding
        /\ X' = X
        /\ last' = Call("set_params", kw, NoX,
                        {n \in DOMAIN kw : Changes(kw, n)},
                        _check_params(p1), None,
                        IF UpdatesHandle(kw, same) THEN {"graph.set_params"} ELSE {})
        /\ handles' = handles

(* The keyword dictionaries of the exploration: one parameter per call,    *)
(* n_jobs and verbose together, or knn_dist and n_jobs together.           *)
Kwargs ==
    UNION { {(n :> v) : v \in Values(n)} : n \in ParamNames }
    \cup { [n_jobs |-> j, verbose |-> v] : j \in Values("n_jobs"), v \in Values("verbose") }
    \cup { [knn_dist |-> d, n_jobs |-> j] : d \in Values("knn_dist"), j \in Values("n_jobs") }

(* The outcomes of the identity test of lines 360-361: it can only hold    *)
(* when one of the two strings equals 'precomputed'.                       *)
Identities(kw) ==
    IF Supplied(kw, "knn_dist") /\ "precomputed" \in {params.knn_dist, kw.knn_dist}
    THEN BOOLEAN ELSE {FALSE}

SetParams ==
    /\ ops < MaxOps /\ sets < MaxSets
    /\ ops' = ops + 1 /\ sets' = sets + 1
    /\ \E kw \in Kwargs : \E same \in Identities(kw) : set_params(kw, same)

-----------------------------------------------------------------------------
(* fit, lines 454-530.                                                     *)

(* lines 486-492: the distance argument of the builder *)
Distance(x) ==
    IF params.knn_dist = "precomputed"
    THEN IF X00(x) = 0 THEN "distance" ELSE "affinity"
    ELSE params.knn_dist

(* lines 494-497; reached only with n_pca not None *)
NPca(x) == IF Cols(x) <= params.n_pca THEN null ELSE params.n_pca

(* lines 499-502 *)
NLandmark(x) ==
    IF params.n_landmark = null \/ Rows(x) <= params.n_landmark
    THEN null ELSE params.n_landmark

(* The exception of lines 485-516, "none" when the graph is built:         *)
(* X.shape[1] <= None is a TypeError, and the builder's arguments read     *)
(* self.n_jobs and self.verbose.                                           *)
BuildError ==
    IF params.n_pca = null THEN "TypeError"
    ELSE IF params.n_jobs = unset \/ params.verbose = unset THEN "AttributeError"
    ELSE "none"

(* lines 505-515: the handle built on x, a new object *)
BuildGraph(x) ==
    Graph(handles + 1, x, NPca(x), NLandmark(x), Distance(x), params.k + 1, params.a, params)

(* lines 520-524: the arguments of the in-place update *)
UpdateKw ==
    [decay |-> params.a, knn |-> params.k + 1, distance |-> params.knn_dist,
     n_jobs |-> params.n_jobs, verbose |-> params.verbose,
     n_pca |-> params.n_pca, n_landmark |-> params.n_landmark,
     random_state |-> params.random_state]

(* line 477: the outcomes of the comparison with the data fitted before;   *)
(* `self.X is not None and` skips it when nothing was fitted               *)
FitCompares(x) == IF X = NoX THEN {"skipped"} ELSE np_all_equal(x, X)

(* line 477: the data differs from the data fitted before, cmp being the   *)
(* outcome of the comparison                                               *)
DataDiffers(cmp) == X # NoX /\ cmp = "False"

(* The call and its re-entry of line 529 are one step: when the handle     *)
(* rejects the update, fit is entered again with self.graph = None and     *)
(* self.X = X, so the re-entry takes the branch of line 485 and builds.    *)
(* When the comparison of line 477 raises, fit ends there: lines 482-483   *)
(* are not reached and nothing is assigned.                                *)
fit(x, cmp) ==
    LET g0 == IF DataDiffers(cmp) THEN None ELSE graph
        rejected == g0 # None /\ GraphRejects(g0, UpdateKw)
        build == g0 = None \/ rejected
        built == build /\ BuildError = "none"
    IN  IF cmp = "ValueError" THEN
        /\ last' = Call("fit", NoKw, x, {}, "ValueError", None, {})
        /\ UNCHANGED <<params, graph, diff_potential, embedding, X, handles>>
        ELSE
        /\ X' = x
        /\ graph' = IF built THEN BuildGraph(x)
                    ELSE IF build THEN None
                    ELSE GraphUpdated(g0, UpdateKw)
        /\ handles' = IF built THEN handles + 1 ELSE handles
        /\ UNCHANGED <<params, diff_potential, embedding>>
        /\ last' = Call("fit", NoKw, x,
                        IF DataDiffers(cmp) THEN {"X"} ELSE {},
                        IF build THEN BuildError ELSE "none", None,
                        (IF g0 # None THEN {"graph.set_params"} ELSE {})
                        \cup (IF rejected THEN {"fit"} ELSE {})
                        \cup (IF built THEN {"Graph"} ELSE {}))

Fit ==
    /\ ops < MaxOps
    /\ ops' = ops + 1 /\ sets' = sets
    /\ \E x \in Datasets : \E cmp \in FitCompares(x) : fit(x, cmp)

-----------------------------------------------------------------------------
(* transform, lines 532-598.  x is the argument X, NoX when it is omitted. *)

(* lines 627-660: the potential of the operator op at depth t under the    *)
(* current potential_method; None stands for the ValueError of line 657,   *)
(* which leaves self.diff_potential as it was.                             *)
calculate_potential(op, t) ==
    IF params.potential_method \in {"log", "sqrt"}
    THEN [op |-> op, t |-> t, method |-> params.potential_method]
    ELSE None

(* lines 580-584: the depth used, the knee of the entropy curve of the     *)
(* operator when t is 'auto'                                               *)
Depth == IF params.t = auto THEN knee ELSE params.t

(* lines 589-592: the coordinates the MDS collaborator returns *)
embed_MDS(pot) ==
    [pot |-> pot, ndim |-> params.n_components, how |-> params.mds,
     metric |-> params.mds_dist, n_jobs |-> params.n_jobs,
     seed |-> params.random_state, verbose |-> params.verbose - 1]

(* graph.interpolate(embedding, transitions): the coordinates expanded by  *)
(* the handle g; to is the data the transitions lead from, NoX for the     *)
(* landmark transitions of the handle itself.                              *)
Interpolate(g, emb, to) == [interp |-> emb, op |-> diff_op(g), to |-> to]

(* line 566: the outcomes of the comparison with the fitted data;          *)
(* `X is not None and` skips it when X is omitted, and a matrix compared   *)
(* with None is equal nowhere                                              *)
TransformCompares(x) ==
    IF x = NoX THEN {"skipped"}
    ELSE IF X = NoX THEN {"False"}
    ELSE np_all_equal(x, X)

(* line 566 with every X taken for the fitted data *)
NeverOutOfSample(x, cmp) == FALSE

(* line 566: X is given and is not the fitted data, cmp being the outcome  *)
(* of the comparison                                                       *)
OutOfSample(x, cmp) == x # NoX /\ cmp = "False"

(* line 585 *)
NeedsPotential == diff_potential = None

(* line 587 with the cache ignored *)
AlwaysEmbeds == TRUE

(* line 587 *)
NeedsEmbedding == embedding = None

(* a call of transform that raises err having invoked calls *)
Raises(x, err, calls) == Call("transform", NoKw, x, {}, err, None, calls)

(* a call of transform that returns ret having invoked calls *)
Returns(x, ret, calls) == Call("transform", NoKw, x, {}, "none", ret, calls)

transform(x, cmp) ==
    IF graph = None THEN
        \* lines 562-565
        /\ last' = Raises(x, "NotFittedError", {})
        /\ UNCHANGED <<params, graph, diff_potential, embedding, X, handles>>
    ELSE IF cmp = "ValueError" THEN
        \* line 566: the shapes cannot be compared
        /\ last' = Raises(x, "ValueError", {})
        /\ UNCHANGED <<params, graph, diff_potential, embedding, X, handles>>
    ELSE IF OutOfSample(x, cmp) THEN
        \* lines 566-578
        /\ last' = IF IsTraditionalGraph(graph)
                   THEN Raises(x, "ValueError", {})
                   ELSE Returns(x, Interpolate(graph, embedding, x),
                                {"extend_to_data", "interpolate"})
        /\ UNCHANGED <<params, graph, diff_potential, embedding, X, handles>>
    ELSE
        \* lines 579-598
        LET knees == IF params.t = auto THEN {"optimal_t"} ELSE {}
            pot == IF NeedsPotential
                   THEN calculate_potential(diff_op(graph), Depth)
                   ELSE diff_potential
            pots == IF NeedsPotential THEN {"calculate_potential"} ELSE {}
            emb == IF NeedsEmbedding THEN embed_MDS(pot) ELSE embedding
            embs == IF NeedsEmbedding THEN {"embed_MDS"} ELSE {}
        IN  IF pot = None THEN
                \* line 657: potential_method is neither 'log' nor 'sqrt'
                /\ last' = Raises(x, "ValueError", knees \cup pots)
                /\ UNCHANGED <<params, graph, diff_potential, embedding, X, handles>>
            ELSE IF NeedsEmbedding /\ (params.n_jobs = unset \/ params.verbose = unset) THEN
                \* lines 591-592 read self.n_jobs and self.verbose
                /\ diff_potential' = pot
                /\ last' = Raises(x, "AttributeError", knees \cup pots)
                /\ UNCHANGED <<params, graph, embedding, X, handles>>
            ELSE
                /\ diff_potential' = pot
                /\ embedding' = emb
                /\ last' = IF IsLandmarkGraph(graph)
                           THEN Returns(x, Interpolate(graph, emb, NoX),
                                        knees \cup pots \cup embs \cup {"interpolate"})
                           ELSE Returns(x, emb, knees \cup pots \cup embs)
                /\ UNCHANGED <<params, graph, X, handles>>

Transform ==
    /\ ops < MaxOps
    /\ ops' = ops + 1 /\ sets' = sets
    /\ \E x \in Datasets \cup {NoX} : \E cmp \in TransformCompares(x) : transform(x, cmp)

Next == SetParams \/ Fit \/ Transform

Spec == Init /\ [][Next]_vars

-----------------------------------------------------------------------------
(* reset_mds, lines 399-428, and reset_potential, lines 430-452.  kw holds *)
(* the arguments given; an argument left at its default None is not in kw. *)

reset_mds(kw) ==
    /\ params' = [n \in ParamNames |-> IF Supplied(kw, n) THEN kw[n] ELSE params[n]]
    /\ embedding' = None
    /\ UNCHANGED <<graph, diff_potential, X, handles>>
    /\ last' = Call("reset_mds", kw, NoX, {n \in DOMAIN kw : Changes(kw, n)},
                    "none", None, {})

(* the method reset_potential (the name reset_potential is the flag of     *)
(* set_params above)                                                       *)
PHATE_reset_potential(kw) ==
    /\ params' = [n \in ParamNames |-> IF Supplied(kw, n) THEN kw[n] ELSE params[n]]
    /\ diff_potential' = None
    /\ UNCHANGED <<graph, embedding, X, handles>>
    /\ last' = Call("reset_potential", kw, NoX, {n \in DOMAIN kw : Changes(kw, n)},
                    "none", None, {})

(* The argument lists of the exploration: none, or one argument *)
ResetArgs(names) ==
    {NoKw} \cup UNION { {(n :> v) : v \in Values(n)} : n \in names }

ResetMds ==
    /\ ops < MaxOps /\ sets < MaxSets
    /\ ops' = ops + 1 /\ sets' = sets + 1
    /\ \E kw \in ResetArgs(EmbeddingTier) : reset_mds(kw)

ResetPotential ==
    /\ ops < MaxOps /\ sets < MaxSets
    /\ ops' = ops + 1 /\ sets' = sets + 1
    /\ \E kw \in ResetArgs(PotentialTier) : PHATE_reset_potential(kw)

NextReset == SetParams \/ Fit \/ Transform \/ ResetMds \/ ResetPotential

SpecReset == Init /\ [][NextReset]_vars

-----------------------------------------------------------------------------
(* calculate_potential called by the user, lines 627-660, on the operator  *)
(* of the fitted graph (self.diff_op, which needs a graph) and a depth t.  *)
(* The method assigns self.diff_potential at lines 653 and 655 and has no  *)
(* return statement: the caller gets None.  With a potential_method other  *)
(* than 'log' and 'sqrt' it raises at line 657 before any assignment.      *)

Depths == {1, 2}

PHATE_calculate_potential(t) ==
    LET pot == calculate_potential(diff_op(graph), t)
    IN  /\ graph # None
        /\ diff_potential' = IF pot = None THEN diff_potential ELSE pot
        /\ UNCHANGED <<params, graph, embedding, X, handles>>
        /\ last' = Call("calculate_potential", [t |-> t], NoX, {},
                        IF pot = None THEN "ValueError" ELSE "none", None, {})

CalculatePotential ==
    /\ ops < MaxOps
    /\ ops' = ops + 1 /\ sets' = sets
    /\ \E t \in Depths : PHATE_calculate_potential(t)

NextPotential == SetParams \/ Fit \/ Transform \/ CalculatePotential

SpecPotential == Init /\ [][NextPotential]_vars

-----------------------------------------------------------------------------
(* calculate_potential on numbers, lines 648-653, for potential_method     *)
(* 'log'.  A diffusion operator is a row-stochastic NDim x NDim matrix;    *)
(* its entries are multiples of 1/Scale, held as the integers 0..Scale.    *)
(* The entries of the t-th power are then integers in units of 1/Scale^t.  *)
(* The matrix handed to np.log is held in units of 1/(Scale^t * EpsInv),   *)
(* where 1/EpsInv is the constant 1e-7 of line 652; in those units 1e-7 is *)
(* Scale^t.                                                                *)

NDim == 2       \* size of the operator
Scale == 4      \* an entry is a multiple of 1/Scale
MaxT == 2       \* largest depth t

EpsInv == 10000000

Idx == 1..NDim

RECURSIVE RowSum(_, _)
RowSum(r, n) == IF n = 0 THEN 0 ELSE r[n] + RowSum(r, n - 1)

StochasticRows == {r \in [Idx -> 0..Scale] : RowSum(r, NDim) = Scale}

Operators == [Idx -> StochasticRows]

RECURSIVE Power(_, _)
Power(b, t) == IF t = 0 THEN 1 ELSE b * Power(b, t - 1)

RECURSIVE Dot(_, _, _, _, _)
Dot(A, B, i, j, n) == IF n = 0 THEN 0 ELSE A[i][n] * B[n][j] + Dot(A, B, i, j, n - 1)

MatMul(A, B) == [i \in Idx |-> [j \in Idx |-> Dot(A, B, i, j, NDim)]]

(* line 648: np.linalg.matrix_power(diff_op, t), the result in units of    *)
(* 1/Scale^t                                                               *)
RECURSIVE matrix_power(_, _)
matrix_power(M, t) ==
    IF t = 0 THEN [i \in Idx |-> [j \in Idx |-> IF i = j THEN 1 ELSE 0]]
    ELSE MatMul(matrix_power(M, t - 1), M)

(* line 652 with the constant left out *)
NoEpsilon(M, t) == [i \in Idx |-> [j \in Idx |-> M[i][j] * EpsInv]]

(* line 652: diff_op_t + 1e-7, the matrix handed to np.log *)
AddEpsilon(M, t) == [i \in Idx |-> [j \in Idx |-> M[i][j] * EpsInv + Power(Scale, t)]]

(* lines 648-653: self.diff_potential = -1 * np.log(log_of), with eps the  *)
(* constant 1e-7 in the units of log_of                                    *)
log_potential(op, t) ==
    /\ params.potential_method = "log"
    /\ diff_potential' = [log_of |-> AddEpsilon(matrix_power(op, t), t),
                          eps |-> Power(Scale, t)]
    /\ UNCHANGED <<params, graph, embedding, X, handles, sets, ops>>
    /\ last' = Call("calculate_potential", [diff_op |-> op, t |-> t], NoX, {},
                    "none", None, {})

(* One call on the instance as constructed: the result depends on nothing  *)
(* but the arguments and potential_method.                                 *)
LogPotential ==
    /\ last.op = "__init__"
    /\ \E op \in Operators, t \in 1..MaxT : log_potential(op, t)

SpecLog == Init /\ [][LogPotential]_vars

-----------------------------------------------------------------------------
(* Vocabulary of the properties *)

Caches == <<graph, diff_potential, embedding>>

(* the last call was set_params *)
WasSetParams == last.op = "set_params"

(* h is the handle object g, with the kernel it had *)
SameHandle(g, h) ==
    IF g = None THEN h = None
    ELSE h # None /\ h.id = g.id /\ diff_op(h) = diff_op(g)

(* the handle g has the current kernel parameters: those it can only be   *)
(* built with, and the number of landmarks it was last given                *)
GraphCurrent(g) ==
    /\ g.knn = params.k + 1
    /\ g.decay = params.a
    /\ g.distance = Distance(g.data)
    /\ g.n_pca = NPca(g.data)
    /\ IsLandmarkGraph(g) => g.n_landmark = params.n_landmark

(* the operator op was computed under the current kernel parameters *)
KernelCurrent(op) ==
    /\ op.knn = params.k + 1
    /\ op.decay = params.a
    /\ op.distance = Distance(op.data)
    /\ op.n_pca = NPca(op.data)
    /\ op.n_landmark \in {params.n_landmark, NLandmark(op.data)}

(* the potential pot was computed under the current kernel and potential   *)
(* parameters                                                              *)
PotentialCurrent(pot) ==
    /\ KernelCurrent(pot.op)
    /\ pot.t = Depth
    /\ pot.method = params.potential_method

(* the coordinates emb were computed under the current parameters *)
EmbeddingCurrent(emb) ==
    /\ PotentialCurrent(emb.pot)
    /\ emb.ndim = params.n_components
    /\ emb.how = params.mds
    /\ emb.metric = params.mds_dist

(* every attribute of the instance has been assigned *)
Complete == params.n_jobs # unset /\ params.verbose # unset

(* the value v is outside the domain the configuration surface gives n *)
OutsideDomain(n, v) ==
    CASE n \in {"n_components", "k"}         -> v <= 0
      [] n \in {"a", "n_landmark", "n_pca"}  -> v # null /\ v <= 0
      [] n = "t"                             -> v # auto /\ v <= 0
      [] n = "potential_method"              -> v \notin {"log", "sqrt"}
      [] n = "mds"                           -> v \notin {"classic", "metric", "nonmetric"}
      [] n = "knn_dist"                      -> v \notin KnnDistAllowed \cup {"precomputed"}
      [] n = "mds_dist"                      -> v \notin MdsDistAllowed
      [] OTHER                               -> FALSE

(* the call c was a transform of the fitted data that returned *)
ReturnedFitted(c) ==
    c.op = "transform" /\ c.err = "none" /\ "extend_to_data" \notin c.calls

(* the dataset the coordinates ret were derived from *)
DataOf(ret) ==
    IF "interp" \in DOMAIN ret
    THEN IF ret.interp = None THEN NoX ELSE ret.interp.pot.op.data
    ELSE ret.pot.op.data

-----------------------------------------------------------------------------
(* C1: after a set_params call that changes k, a, n_pca, knn_dist or       *)
(* n_landmark, the graph handle, the diffusion potential and the embedding *)
(* are all absent.                                                         *)
C1_KernelChangeClearsAll ==
    (WasSetParams /\ last.changed \cap KernelTier # {})
        => (graph = None /\ diff_potential = None /\ embedding = None)

(* C2: a set_params call that changes t or potential_method and no kernel  *)
(* parameter leaves the potential and the embedding absent and the graph   *)
(* handle the handle it was.                                               *)
C2_PotentialChangeKeepsGraph ==
    [][ (/\ last'.op = "set_params"
         /\ last'.changed \cap PotentialTier # {}
         /\ last'.changed \cap KernelTier = {})
        => (/\ diff_potential' = None
            /\ embedding' = None
            /\ SameHandle(graph, graph')) ]_vars

(* C2 witness: t or potential_method was changed on a fitted instance *)
C2_Witness ==
    /\ WasSetParams
    /\ last.changed \cap PotentialTier # {}
    /\ last.changed \cap KernelTier = {}
    /\ graph # None
    /\ diff_potential = None

(* C3: a set_params call that changes only n_components, mds or mds_dist   *)
(* leaves the embedding absent and the graph handle and the potential      *)
(* exactly as they were.                                                   *)
C3_EmbeddingChangeKeepsRest ==
    [][ (/\ last'.op = "set_params"
         /\ last'.changed # {}
         /\ last'.changed \subseteq EmbeddingTier)
        => (/\ embedding' = None
            /\ graph' = graph
            /\ diff_potential' = diff_potential) ]_vars

(* C3 witness: an embedding parameter was changed with a potential cached *)
C3_Witness ==
    /\ WasSetParams
    /\ last.changed # {}
    /\ last.changed \subseteq EmbeddingTier
    /\ graph # None
    /\ diff_potential # None
    /\ embedding = None

(* C4: every cached artifact was computed under the current values of the  *)
(* parameters it depends on: the graph under the kernel parameters, the    *)
(* potential under the kernel and potential parameters, the embedding      *)
(* under the kernel, potential and embedding parameters.                   *)
C4_CachesAreCurrent ==
    /\ graph # None => GraphCurrent(graph)
    /\ diff_potential # None => PotentialCurrent(diff_potential)
    /\ embedding # None => EmbeddingCurrent(embedding)

(* C5: after fit on data that differs from the fitted data the potential   *)
(* and the embedding are absent, and a transform of the fitted data        *)
(* returns coordinates derived from the fitted data.                       *)
C5_RefitClearsDownstream ==
    /\ (last.op = "fit" /\ "X" \in last.changed)
          => (diff_potential = None /\ embedding = None)
    /\ (last.op = "transform" /\ last.err = "none" /\ last.X \in {NoX, X})
          => DataOf(last.ret) = X

(* C6: for every valid configuration construction succeeds, and a          *)
(* transform before any fit has built a graph ends in the not-fitted error *)
(* with the graph handle, the potential and the embedding absent.          *)
C6_TransformBeforeFit ==
    /\ (last.op = "__init__" /\ _check_params(last.kw) = "none")
          => last.err = "none"
    /\ (last.op = "transform" /\ handles = 0)
          => /\ last.err = "NotFittedError"
             /\ graph = None /\ diff_potential = None /\ embedding = None

(* C7: a set_params call on a complete instance that is given a value      *)
(* outside its option's domain raises the validation error and writes no   *)
(* parameter.                                                              *)
C7_InvalidLeavesStore ==
    [][ (/\ Complete
         /\ last'.op = "set_params"
         /\ \E n \in DOMAIN last'.kw : OutsideDomain(n, last'.kw[n]))
        => (last'.err = "ValueError" /\ params' = params) ]_vars

(* C8: a transform of the fitted data that follows a transform of the      *)
(* fitted data which returned, returns the same coordinates, invokes       *)
(* neither the potential calculation nor the MDS engine and leaves the     *)
(* cached artifacts unchanged.                                             *)
C8_TransformIdempotent ==
    [][ (/\ ReturnedFitted(last)
         /\ last'.op = "transform"
         /\ last'.X \in {NoX, X})
        => (/\ last'.err = "none"
            /\ last'.ret = last.ret
            /\ last'.calls \cap {"calculate_potential", "embed_MDS"} = {}
            /\ Caches' = Caches) ]_vars

(* C8 witness: a transform of the fitted data found both artifacts cached  *)
C8_Witness ==
    /\ ReturnedFitted(last)
    /\ last.calls \cap {"calculate_potential", "embed_MDS"} = {}
    /\ embedding # None
    /\ last.ret \in {embedding, Interpolate(graph, embedding, NoX)}

(* C9: a fit on the data of the fit before it, which built or kept a       *)
(* graph, keeps the handle object and does not invoke the graph builder.   *)
C9_RefitSameDataKeepsGraph ==
    [][ (/\ last.op = "fit" /\ last.err = "none"
         /\ last'.op = "fit" /\ last'.X = last.X)
        => (/\ graph' # None
            /\ graph'.id = graph.id
            /\ "Graph" \notin last'.calls) ]_vars

(* C10: on an instance whose attributes are all assigned and that has been *)
(* fitted before, a fit on a matrix other than the fitted one raises       *)
(* nothing, replaces the handle by a new one built from the new matrix and *)
(* makes the new matrix the fitted data.                                   *)
C10_RefitNewDataRebuilds ==
    [][ (/\ Complete /\ X # NoX
         /\ last'.op = "fit"
         /\ last'.X # X)
        => (/\ last'.err = "none"
            /\ "Graph" \in last'.calls
            /\ graph' # None
            /\ (graph # None => graph'.id # graph.id)
            /\ graph'.data = last'.X
            /\ X' = last'.X) ]_vars

-----------------------------------------------------------------------------
(* the handle and the MDS engine were given the current n_jobs,            *)
(* random_state and verbose by the call that used them last                *)
HandedOn(c, g, emb, p) ==
    /\ (c.calls \cap {"Graph", "graph.set_params"} # {} /\ g # None)
          => \A n \in CrossCutting : g[n] = p[n]
    /\ "embed_MDS" \in c.calls
          => /\ emb.n_jobs = p.n_jobs
             /\ emb.seed = p.random_state
             /\ emb.verbose = p.verbose - 1

(* C11: a set_params call that supplies only n_jobs, random_state or       *)
(* verbose keeps the graph handle, the potential and the embedding, stores *)
(* the values supplied, and every later build or update of the handle and  *)
(* every later run of the MDS engine is given the stored values.           *)
C11_CrossCuttingKeepsCaches ==
    [][ /\ (last'.op = "set_params" /\ DOMAIN last'.kw \subseteq CrossCutting)
            => /\ SameHandle(graph, graph')
               /\ diff_potential' = diff_potential
               /\ embedding' = embedding
               /\ \A n \in DOMAIN last'.kw : params'[n] = last'.kw[n]
        /\ HandedOn(last', graph', embedding', params') ]_vars

(* C11 witness: n_jobs, random_state or verbose was changed on an instance *)
(* with all three artifacts cached, and the handle took the value over     *)
C11_Witness ==
    /\ WasSetParams
    /\ last.changed # {}
    /\ DOMAIN last.kw \subseteq CrossCutting
    /\ graph # None /\ diff_potential # None /\ embedding # None
    /\ \A n \in DOMAIN last.kw : graph[n] = last.kw[n]

(* a set_params call switches n_landmark between None and a number, or     *)
(* knn_dist to or from 'precomputed'                                       *)
StructuralSwitch(p, kw) ==
    \/ /\ "n_landmark" \in DOMAIN kw
       /\ kw.n_landmark # p.n_landmark
       /\ null \in {p.n_landmark, kw.n_landmark}
    \/ /\ "knn_dist" \in DOMAIN kw
       /\ kw.knn_dist # p.knn_dist
       /\ "precomputed" \in {p.knn_dist, kw.knn_dist}

(* C12: a set_params call that makes a structural switch leaves the graph  *)
(* handle absent and calls graph.set_params on no handle.                  *)
C12_StructuralSwitchDiscards ==
    [][ (last'.op = "set_params" /\ StructuralSwitch(params, last'.kw))
        => (graph' = None /\ "graph.set_params" \notin last'.calls) ]_vars

(* the handle g was built from a precomputed distance or affinity matrix:  *)
(* the graph type that cannot be extended to new data                      *)
Precomputed(g) == g.distance \in {"distance", "affinity"}

(* the call c is a transform of data other than the fitted data x *)
TransformsOther(c, x) == c.op = "transform" /\ c.X \notin {NoX, x}

WroteParams == last.op \in {"set_params", "reset_mds", "reset_potential"}

(* C15: the potential calculation and the MDS engine are only ever invoked *)
(* with every parameter inside its domain, and a call on a complete        *)
(* instance that writes a value outside its domain raises the validation   *)
(* error.                                                                  *)
C15_NoInvalidValueComputes ==
    /\ (last.calls \cap {"calculate_potential", "embed_MDS"} # {})
          => \A n \in ParamNames : ~OutsideDomain(n, params[n])
    /\ (/\ WroteParams /\ Complete
        /\ \E n \in DOMAIN last.kw : OutsideDomain(n, last.kw[n]))
          => last.err = "ValueError"

(* C16: on an instance whose stored values all pass validation, a          *)
(* set_params call that supplies values inside their domains ('precomputed'*)
(* for knn_dist and None for a, n_landmark and n_pca included) raises      *)
(* nothing, and the stored values are then the values supplied.            *)
C16_RoundTrip ==
    [][ (/\ _check_params(params) = "none"
         /\ last'.op = "set_params"
         /\ \A n \in DOMAIN last'.kw : ~OutsideDomain(n, last'.kw[n]))
        => (/\ last'.err = "none"
            /\ \A n \in DOMAIN last'.kw : params'[n] = last'.kw[n]) ]_vars

(* C17: a fit call on an instance whose stored values all pass validation  *)
(* returns with a graph handle cached; when the handle rejected the update *)
(* fit re-entered itself and the re-entry built a new handle.              *)
C17_FitEndsFitted ==
    (last.op = "fit" /\ _check_params(params) = "none" /\ Complete)
        => /\ last.err = "none"
           /\ graph # None
           /\ "fit" \in last.calls => "Graph" \in last.calls

(* C18: a transform of the fitted data does not invoke optimal_t when t is *)
(* a number; when t is 'auto' it invokes optimal_t if no embedding is      *)
(* cached, and does not invoke it if the potential and the embedding are   *)
(* both cached.                                                            *)
C18_KneeSelectorInvocation ==
    [][ (/\ last'.op = "transform"
         /\ graph # None
         /\ last'.X \in {NoX, X})
        => (/\ params.t # auto => "optimal_t" \notin last'.calls
            /\ (params.t = auto /\ embedding = None)
                  => "optimal_t" \in last'.calls
            /\ (params.t = auto /\ embedding # None /\ diff_potential # None)
                  => "optimal_t" \notin last'.calls) ]_vars

(* C19: a cached embedding comes with a cached potential, and a cached     *)
(* potential with a cached graph handle.                                   *)
C19_LinearStateOrder ==
    /\ embedding # None => diff_potential # None
    /\ diff_potential # None => graph # None

(* C20: reset_potential leaves the potential and the embedding absent and  *)
(* the graph handle as it was; reset_mds leaves the embedding absent and   *)
(* the graph handle and the potential as they were.                        *)
C20_ResetsFollowTiers ==
    [][ /\ last'.op = "reset_potential"
            => /\ diff_potential' = None
               /\ embedding' = None
               /\ graph' = graph
        /\ last'.op = "reset_mds"
            => /\ embedding' = None
               /\ graph' = graph
               /\ diff_potential' = diff_potential ]_vars

(* C21: a set_params call that raises the validation error leaves the      *)
(* graph handle, the potential and the embedding as they were.             *)
C21_RejectedUpdateKeepsCaches ==
    [][ (last'.op = "set_params" /\ last'.err = "ValueError")
        => Caches' = Caches ]_vars

(* C22: whenever a transform of data other than the fitted data invokes    *)
(* the interpolator, an embedding is cached.                               *)
C22_InterpolatesCachedEmbedding ==
    (TransformsOther(last, X) /\ "interpolate" \in last.calls)
        => embedding # None

(* the kernel, potential and embedding parameters *)
TierParams == KernelTier \cup PotentialTier \cup EmbeddingTier

(* C23: a set_params call in which every kernel, potential and embedding   *)
(* parameter supplied has its current value keeps the graph handle, the    *)
(* potential and the embedding; when it supplies nothing else the handle   *)
(* is untouched.                                                           *)
C23_NoChangeClearsNothing ==
    [][ (/\ last'.op = "set_params"
         /\ \A n \in DOMAIN last'.kw \cap TierParams : last'.kw[n] = params[n])
        => (/\ SameHandle(graph, graph')
            /\ DOMAIN last'.kw \subseteq TierParams => graph' = graph
            /\ diff_potential' = diff_potential
            /\ embedding' = embedding) ]_vars

(* C23 witness: a kernel, potential or embedding parameter was supplied    *)
(* with its current value on an instance with all three artifacts cached   *)
C23_Witness ==
    /\ WasSetParams
    /\ DOMAIN last.kw \cap TierParams # {}
    /\ \A n \in DOMAIN last.kw \cap TierParams : last.kw[n] = params[n]
    /\ last.changed \cap TierParams = {}
    /\ graph # None /\ diff_potential # None /\ embedding # None

(* C24: a call of calculate_potential that raises nothing returns the      *)
(* potential of its arguments and leaves the cached potential, the         *)
(* embedding, the graph handle and the parameters as they were.            *)
C24_PotentialCalculationPure ==
    [][ (last'.op = "calculate_potential" /\ last'.err = "none")
        => (/\ last'.ret = calculate_potential(diff_op(graph), last'.kw.t)
            /\ UNCHANGED <<diff_potential, embedding, graph, params>>) ]_vars

(* the last call computed a log potential on numbers *)
ComputedLog == last.op = "calculate_potential" /\ "log_of" \in DOMAIN diff_potential

(* C25: with potential_method 'log', for every row-stochastic operator     *)
(* with entries in [0, 1] and every depth t >= 1, every entry handed to    *)
(* the logarithm is at least 1e-7 and so positive.                         *)
C25_LogArgumentAtLeastEpsilon ==
    ComputedLog
        => \A i \in Idx, j \in Idx :
              /\ diff_potential.log_of[i][j] >= diff_potential.eps
              /\ diff_potential.log_of[i][j] > 0

(* C25 witness: a power with depth above 1 of an operator had a zero       *)
(* entry, handed to the logarithm as exactly 1e-7, next to a nonzero one   *)
C25_Witness ==
    /\ ComputedLog
    /\ last.kw.t > 1
    /\ \E i \in Idx, j \in Idx : diff_potential.log_of[i][j] = diff_potential.eps
    /\ \E i \in Idx, j \in Idx : diff_potential.log_of[i][j] > diff_potential.eps
    /\ \E i \in Idx, j \in Idx : last.kw.diff_op[i][j] \notin {0, Scale}

====
